---- MODULE Spec2Model ----
(***************************************************************************)
(* Model of qsp_models/qsp_layers.py: the QSP keras layer (construction,   *)
(* forward call, trainable phase angles), the four deviation losses and    *)
(* construct_qsp_model.                                                    *)
(*                                                                         *)
(* Angles are counted in quarter turns (one unit = pi/2), so that cos and  *)
(* sin are exact integers and every rotation matrix has Gaussian-integer   *)
(* entries.  A complex number is a pair <<re, im>>, a 2x2 matrix a pair of *)
(* rows.                                                                   *)
(***************************************************************************)
EXTENDS Integers, Sequences, FiniteSets

VARIABLES
    qsp,         \* "none" | "built" | "error": outcome of QSP.__init__
    poly_deg,    \* self.poly_deg
    convention,  \* self.convention
    phis,        \* self.phis, a sequence of quarter-turn angles
    th,          \* the input batch of the latest forward call
    run,         \* what the latest forward call did: factors, matmuls, u, result
    model,       \* outcome of the latest construct_qsp_model call
    lossEval     \* the latest evaluation of a loss function

vars == <<qsp, poly_deg, convention, phis, th, run, model, lossEval>>

layerVars == <<qsp, poly_deg, convention, phis>>

-----------------------------------------------------------------------------
(* Bounds of the model *)

MaxDeg == 2

MaxBatch == 2

MaxLossBatch == 2

PolyDegs == (0 - 2)..MaxDeg

Conventions == 0..2

Flags == 0..2

\* learning rates, in thousandths
LearningRates == {1, 10}

\* the complex values of the loss batches: the corners of a 3 x 4 rectangle,
\* whose pairwise distances 0, 3, 4 and 5 are whole numbers
LossValues == {<<0, 0>>, <<3, 0>>, <<0, 4>>, <<3, 4>>}

LossBatches(n) == [1..n -> LossValues]

\* quarter turns: 0, pi/2, pi, 3pi/2
Angles == 0..3

\* the quarter turns inside [0, pi)
InitAngles == {a \in Angles : a < 2}

\* the input angles theta = arccos(x) of x = 1 and x = 0: 0 and pi/2
Thetas == {a \in Angles : a <= 1}

Batches == UNION {[1..n -> Thetas] : n \in 1..MaxBatch}

\* what one optimizer step adds to a phase angle, in quarter turns
Steps == {0 - 1, 0, 1}

-----------------------------------------------------------------------------
(* Complex numbers and 2x2 complex matrices *)

CAdd(a, b) == <<a[1] + b[1], a[2] + b[2]>>

CSub(a, b) == <<a[1] - b[1], a[2] - b[2]>>

CMul(a, b) == <<a[1] * b[1] - a[2] * b[2], a[1] * b[2] + a[2] * b[1]>>

Real(z) == z[1]

Imag(z) == z[2]

Cos(a) == CASE a % 4 = 0 -> 1 [] a % 4 = 2 -> 0 - 1 [] OTHER -> 0

Sin(a) == CASE a % 4 = 1 -> 1 [] a % 4 = 3 -> 0 - 1 [] OTHER -> 0

\* entry (r, c) of the product A B
Entry(A, B, r, c) == CAdd(CMul(A[r][1], B[1][c]), CMul(A[r][2], B[2][c]))

MatMul(A, B) ==
    <<<<Entry(A, B, 1, 1), Entry(A, B, 1, 2)>>,
      <<Entry(A, B, 2, 1), Entry(A, B, 2, 2)>>>>

\* the Pauli matrices px and pz (real entries)
PauliX == <<<<0, 1>>, <<1, 0>>>>

PauliZ == <<<<1, 0>>, <<0, 0 - 1>>>>

\* tf.multiply(p, rot_arg): every entry of the Pauli matrix times i*angle;
\* the result is i * (the returned real matrix) quarter turns
Generator(p, angle) ==
    <<<<p[1][1] * angle, p[1][2] * angle>>,
      <<p[2][1] * angle, p[2][2] * angle>>>>

\* tf.linalg.expm of i*g for the two generator shapes the layer builds:
\* a diagonal g gives diag(e^{i g11}, e^{i g22}); an off-diagonal g with
\* g12 = g21 = b gives cos(b) I + i sin(b) X
Expm(g) ==
    IF g[1][2] = 0 /\ g[2][1] = 0
    THEN <<<<(<<Cos(g[1][1]), Sin(g[1][1])>>), (<<0, 0>>)>>,
           <<(<<0, 0>>), (<<Cos(g[2][2]), Sin(g[2][2])>>)>>>>
    ELSE <<<<(<<Cos(g[1][2]), 0>>), (<<0, Sin(g[1][2])>>)>>,
           <<(<<0, Sin(g[2][1])>>), (<<Cos(g[2][1]), 0>>)>>>>

\* wx for one example
Wx(theta) == Expm(Generator(PauliX, theta))

\* rz for one phase
Rz(phi) == Expm(Generator(PauliZ, phi))

-----------------------------------------------------------------------------
(* QSP.call *)

\* tf.matmul on two batches of 2x2 matrices
BatchMatMul(U, V) == [i \in DOMAIN U |-> MatMul(U[i], V[i])]

\* wx: one X rotation per example of the batch
BatchWx(thetas) == [i \in DOMAIN thetas |-> Wx(thetas[i])]

\* rz: the Z rotation of one phase, tiled over the batch
TiledRz(phi, batch_dim) == [i \in 1..batch_dim |-> Rz(phi)]

\* z_rotations: one tiled Z rotation per k in range(poly_deg + 1), built
\* from self.phis[k] (phis is 1-based here)
ZRotations(deg, ps, batch_dim) ==
    [j \in 1..(deg + 1) |-> TiledRz(ps[j], batch_dim)]

\* LoopStep with the two products of an iteration exchanged
LoopStepRzFirst(acc, wx, rz, j) ==
    [u       |-> BatchMatMul(BatchMatMul(acc.u, rz), wx),
     factors |-> acc.factors \o <<[gate |-> "Z", k |-> j, m |-> rz],
                                  [gate |-> "X", k |-> j, m |-> wx]>>,
     matmuls |-> acc.matmuls + 2]

\* one iteration of "for rz in z_rotations[1:]": u = u wx, then u = u rz.
\* acc carries u, the factors multiplied so far and the number of matmuls.
LoopStep(acc, wx, rz, j) ==
    [u       |-> BatchMatMul(BatchMatMul(acc.u, wx), rz),
     factors |-> acc.factors \o <<[gate |-> "X", k |-> j, m |-> wx],
                                  [gate |-> "Z", k |-> j, m |-> rz]>>,
     matmuls |-> acc.matmuls + 2]

RECURSIVE Loop(_, _, _, _)
Loop(acc, wx, zs, j) ==
    IF j > Len(zs) THEN acc
    ELSE Loop(LoopStep(acc, wx, zs[j], j - 1), wx, zs, j + 1)

\* Product looping over z_rotations instead of z_rotations[1:]
ProductFromFirst(zs, wx) ==
    Loop([u       |-> zs[1],
          factors |-> <<[gate |-> "Z", k |-> 0, m |-> zs[1]]>>,
          matmuls |-> 0], wx, zs, 1)

\* u = z_rotations[0], then the loop over z_rotations[1:]
Product(zs, wx) ==
    Loop([u       |-> zs[1],
          factors |-> <<[gate |-> "Z", k |-> 0, m |-> zs[1]]>>,
          matmuls |-> 0], wx, zs, 2)

\* Readout taking both streams from entry [0,0] whatever the convention
ReadoutTopLeft(u, conv) ==
    IF conv \in {0, 1}
    THEN [kind |-> "pair",
          re |-> [i \in DOMAIN u |-> Real(u[i][1][1])],
          im |-> [i \in DOMAIN u |-> Imag(u[i][1][1])]]
    ELSE [kind |-> "None", re |-> <<>>, im |-> <<>>]

\* the return statement: a pair of streams for convention 0 and 1, and the
\* implicit None of a function that falls off its end otherwise
Readout(u, conv) ==
    IF conv = 0
    THEN [kind |-> "pair",
          re |-> [i \in DOMAIN u |-> Real(u[i][1][1])],
          im |-> [i \in DOMAIN u |-> Imag(u[i][1][1])]]
    ELSE IF conv = 1
    THEN [kind |-> "pair",
          re |-> [i \in DOMAIN u |-> Real(u[i][1][1])],
          im |-> [i \in DOMAIN u |-> Imag(u[i][1][2])]]
    ELSE [kind |-> "None", re |-> <<>>, im |-> <<>>]

Idle == [kind |-> "idle", factors |-> <<>>, matmuls |-> 0, u |-> <<>>,
         re |-> <<>>, im |-> <<>>]

\* the whole forward pass on the batch thetas; z_rotations[0] on an empty
\* list raises IndexError
Forward(deg, conv, ps, thetas) ==
    LET zs == ZRotations(deg, ps, Len(thetas)) IN
    IF Len(zs) = 0
    THEN [Idle EXCEPT !.kind = "IndexError"]
    ELSE LET p == Product(zs, BatchWx(thetas))
             r == Readout(p.u, conv)
         IN [kind |-> r.kind, factors |-> p.factors, matmuls |-> p.matmuls,
             u |-> p.u, re |-> r.re, im |-> r.im]

-----------------------------------------------------------------------------
(* The layer as a state machine *)

NoArgs == [poly_deg |-> 0, convention |-> 0, lr |-> 0, mean_or_max |-> 0,
           squared |-> 0]

NoModel == [status |-> "none", error |-> "none", loss |-> "none",
            convention |-> 0 - 1, lr |-> 0, args |-> NoArgs]

NoLoss == [fn |-> "none", y_true |-> <<>>, y_pred |-> <<>>, value |-> <<0, 1>>]

\* the shape (poly_deg + 1, 1) handed to the initializer: a negative
\* dimension is rejected, a zero dimension gives an empty variable
ShapeOk(deg) == deg + 1 >= 0

\* InitPhis allocating poly_deg phases instead of poly_deg + 1
InitPhisShort(deg) == [1..deg -> InitAngles]

\* the values the uniform initializer on [0, pi) can give to self.phis
InitPhis(deg) == [1..(deg + 1) -> InitAngles]

Init ==
    /\ qsp = "none"
    /\ poly_deg = 0
    /\ convention = 0
    /\ phis = <<>>
    /\ th = <<>>
    /\ run = Idle
    /\ model = NoModel
    /\ lossEval = NoLoss

\* QSP.__init__(poly_deg, convention)
QSPInit(deg, conv) ==
    /\ qsp = "none"
    /\ poly_deg' = deg
    /\ convention' = conv
    /\ IF ShapeOk(deg)
       THEN /\ qsp' = "built"
            /\ phis' \in InitPhis(deg)
       ELSE /\ qsp' = "error"
            /\ phis' = <<>>
    /\ UNCHANGED <<th, run, model, lossEval>>

\* Call wrapping the phases into [0, pi) in place before using them
CallWrapping(thetas) ==
    /\ qsp = "built"
    /\ th' = thetas
    /\ phis' = [j \in DOMAIN phis |-> phis[j] % 2]
    /\ run' = Forward(poly_deg, convention, phis', thetas)
    /\ UNCHANGED <<qsp, poly_deg, convention, model, lossEval>>

\* QSP.call(th)
Call(thetas) ==
    /\ qsp = "built"
    /\ th' = thetas
    /\ run' = Forward(poly_deg, convention, phis, thetas)
    /\ UNCHANGED <<layerVars, model, lossEval>>

\* one optimizer step on the trainable variable: an elementwise update
\* phis[k] += step[k] of the whole vector (angles are kept modulo a full
\* turn); the step returns nothing
ApplyGradients(step) ==
    /\ qsp = "built"
    /\ phis' = [j \in DOMAIN phis |-> (phis[j] + step[j]) % 4]
    /\ th' = <<>>
    /\ run' = Idle
    /\ UNCHANGED <<qsp, poly_deg, convention, model, lossEval>>

Next ==
    \/ \E deg \in PolyDegs, conv \in Conventions : QSPInit(deg, conv)
    \/ \E thetas \in Batches : Call(thetas)
    \/ \E step \in [DOMAIN phis -> Steps] : ApplyGradients(step)

Spec == Init /\ [][Next]_vars

-----------------------------------------------------------------------------
(* The loss functions; a loss value is a fraction <<num, den>> in lowest terms *)

RECURSIVE Gcd(_, _)
Gcd(a, b) == IF b = 0 THEN a ELSE Gcd(b, a % b)

Fraction(num, den) ==
    LET g == Gcd(num, den) IN IF g = 0 THEN <<0, 1>> ELSE <<num \div g, den \div g>>

\* the square root, exact on the perfect squares
Sqrt(n) == CHOOSE r \in 0..n : r * r <= n /\ (r + 1) * (r + 1) > n

\* tf.abs of a complex number: its modulus
Abs(z) == Sqrt(z[1] * z[1] + z[2] * z[2])

\* tf.subtract, elementwise
Subtract(a, b) == [i \in DOMAIN a |-> CSub(a[i], b[i])]

\* Deviations with the difference replaced by a sum
DeviationsOfSum(y_true, y_pred) ==
    [i \in DOMAIN y_true |-> Abs(CAdd(y_true[i], y_pred[i]))]

\* deviations = tf.abs(tf.subtract(y_true, y_pred))
Deviations(y_true, y_pred) ==
    LET d == Subtract(y_true, y_pred) IN [i \in DOMAIN d |-> Abs(d[i])]

\* tf.square, elementwise
Square(xs) == [i \in DOMAIN xs |-> xs[i] * xs[i]]

RECURSIVE Sum(_, _)
Sum(xs, n) == IF n = 0 THEN 0 ELSE Sum(xs, n - 1) + xs[n]

RECURSIVE Max(_, _)
Max(xs, n) ==
    IF n = 1 THEN xs[1]
    ELSE LET m == Max(xs, n - 1) IN IF xs[n] > m THEN xs[n] ELSE m

\* tf.math.reduce_mean
ReduceMean(xs) == Fraction(Sum(xs, Len(xs)), Len(xs))

\* tf.math.reduce_max
ReduceMax(xs) == Fraction(Max(xs, Len(xs)), 1)

mean_deviation(y_true, y_pred) == ReduceMean(Deviations(y_true, y_pred))

max_deviation(y_true, y_pred) == ReduceMax(Deviations(y_true, y_pred))

mean_deviation_squared(y_true, y_pred) ==
    ReduceMean(Square(Deviations(y_true, y_pred)))

max_deviation_squared(y_true, y_pred) ==
    ReduceMax(Square(Deviations(y_true, y_pred)))

LossNames == {"mean_deviation", "max_deviation", "mean_deviation_squared",
              "max_deviation_squared"}

\* the loss function bound to a name
ApplyLoss(fn, y_true, y_pred) ==
    CASE fn = "mean_deviation" -> mean_deviation(y_true, y_pred)
      [] fn = "max_deviation" -> max_deviation(y_true, y_pred)
      [] fn = "mean_deviation_squared" -> mean_deviation_squared(y_true, y_pred)
      [] fn = "max_deviation_squared" -> max_deviation_squared(y_true, y_pred)

\* the two batches a loss is about to be applied to, of equal length
LossInit ==
    /\ qsp = "none"
    /\ poly_deg = 0
    /\ convention = 0
    /\ phis = <<>>
    /\ th = <<>>
    /\ run = Idle
    /\ model = NoModel
    /\ \E n \in 1..MaxLossBatch : \E a \in LossBatches(n), b \in LossBatches(n) :
          lossEval = [NoLoss EXCEPT !.y_true = a, !.y_pred = b]

\* the evaluation of the loss named fn on the two batches
Evaluate(fn) ==
    /\ lossEval.fn = "none"
    /\ lossEval' = [lossEval EXCEPT
                      !.fn = fn,
                      !.value = ApplyLoss(fn, lossEval.y_true, lossEval.y_pred)]
    /\ UNCHANGED <<layerVars, th, run, model>>

LossNext == \E fn \in LossNames : Evaluate(fn)

SpecLoss == LossInit /\ [][LossNext]_vars

-----------------------------------------------------------------------------
(* construct_qsp_model *)

\* SelectLoss falling back to mean_deviation when no branch matches
SelectLossDefault(mean_or_max, squared) ==
    IF mean_or_max = 0 /\ squared = 1 THEN "mean_deviation_squared"
    ELSE IF mean_or_max = 1 /\ squared = 0 THEN "max_deviation"
    ELSE IF mean_or_max = 1 /\ squared = 1 THEN "max_deviation_squared"
    ELSE "mean_deviation"

\* SelectLoss with the two flags exchanged
SelectLossSwapped(mean_or_max, squared) ==
    IF squared = 0
    THEN (IF mean_or_max = 0 THEN "mean_deviation"
          ELSE IF mean_or_max = 1 THEN "mean_deviation_squared"
          ELSE "unbound")
    ELSE IF squared = 1
    THEN (IF mean_or_max = 0 THEN "max_deviation"
          ELSE IF mean_or_max = 1 THEN "max_deviation_squared"
          ELSE "unbound")
    ELSE "unbound"

\* the if/elif ladder that assigns the local variable loss; "unbound" when
\* no branch assigns it
SelectLoss(mean_or_max, squared) ==
    IF mean_or_max = 0
    THEN (IF squared = 0 THEN "mean_deviation"
          ELSE IF squared = 1 THEN "mean_deviation_squared"
          ELSE "unbound")
    ELSE IF mean_or_max = 1
    THEN (IF squared = 0 THEN "max_deviation"
          ELSE IF squared = 1 THEN "max_deviation_squared"
          ELSE "unbound")
    ELSE "unbound"

\* qsp(theta_input): the layer's call traced on the symbolic input; only
\* how the call ends matters here
SymbolicCall(deg, conv, ps) == Forward(deg, conv, ps, <<0>>).kind

\* how construct_qsp_model ends for a layer with phases ps: the first
\* statement that raises, or "none"
BuildError(deg, conv, ps, mean_or_max, squared) ==
    IF ~ShapeOk(deg) THEN "InvalidShape"
    ELSE IF SymbolicCall(deg, conv, ps) = "IndexError" THEN "IndexError"
    ELSE IF SymbolicCall(deg, conv, ps) = "None" THEN "CastOfNone"
    ELSE IF SelectLoss(mean_or_max, squared) = "unbound"
    THEN "UnboundLocalError"
    ELSE "none"

\* construct_qsp_model(poly_deg, convention, lr, mean_or_max, squared)
ConstructQspModel(deg, conv, lr, mean_or_max, squared) ==
    /\ model.status = "none"
    /\ qsp = "none"
    /\ poly_deg' = deg
    /\ convention' = conv
    /\ qsp' = IF ShapeOk(deg) THEN "built" ELSE "error"
    /\ phis' \in (IF ShapeOk(deg) THEN InitPhis(deg) ELSE {<<>>})
    /\ LET err  == BuildError(deg, conv, phis', mean_or_max, squared)
           args == [poly_deg |-> deg, convention |-> conv, lr |-> lr,
                    mean_or_max |-> mean_or_max, squared |-> squared]
       IN model' =
            IF err = "none"
            THEN [status |-> "compiled", error |-> "none",
                  loss |-> SelectLoss(mean_or_max, squared),
                  convention |-> conv, lr |-> lr, args |-> args]
            ELSE [status |-> "error", error |-> err, loss |-> "none",
                  convention |-> 0 - 1, lr |-> 0, args |-> args]
    /\ UNCHANGED <<th, run, lossEval>>

BuildNext ==
    \E deg \in PolyDegs, conv \in Conventions, lr \in LearningRates,
       mean_or_max \in Flags, squared \in Flags :
        ConstructQspModel(deg, conv, lr, mean_or_max, squared)

SpecBuild == Init /\ [][BuildNext]_vars

-----------------------------------------------------------------------------
(* Properties of the layer *)

\* the latest forward call reached its return statement
Returned == run.kind \in {"pair", "None"}

\* the factors of the latest call, for example i, multiplied left to right
RECURSIVE LeftToRight(_, _, _)
LeftToRight(fs, i, n) ==
    IF n = 1 THEN fs[1].m[i]
    ELSE MatMul(LeftToRight(fs, i, n - 1), fs[n].m[i])

\* C1: a forward call of a layer whose convention is neither 0 nor 1 ends in
\* an explicit "unsupported convention" error, never in a normal return
\* without a readout pair (stated for the layers whose call reaches the
\* return statement, poly_deg >= 0)
C1_UnsupportedConventionRaises ==
    (qsp = "built" /\ poly_deg >= 0 /\ convention \notin {0, 1}
        /\ run.kind # "idle")
    => (run.kind = "unsupported convention" /\ run.kind # "None")

\* C2: no layer object with a negative poly_deg is ever produced:
\* construction with a negative poly_deg fails
C2_NegativePolyDegRejected ==
    (qsp # "none" /\ poly_deg < 0) => qsp = "error"

\* C3: for poly_deg >= 0 the factors the forward call multiplies are, left
\* to right, Rz(phi_0), W(theta), Rz(phi_1), ..., Rz(phi_poly_deg): 2*poly_deg+1
\* factors, Z-rotations at the odd places and X-rotations at the even ones,
\* the k-th Z-rotation built from phi_k, every X-rotation W(theta_i), and u
\* is their product in that order for every example i
C3_AlternatingProduct ==
    (Returned /\ poly_deg >= 0) =>
        /\ Len(run.factors) = 2 * poly_deg + 1
        /\ \A k \in 0..poly_deg :
              /\ run.factors[2 * k + 1].gate = "Z"
              /\ run.factors[2 * k + 1].m = TiledRz(phis[k + 1], Len(th))
        /\ \A k \in 1..poly_deg :
              /\ run.factors[2 * k].gate = "X"
              /\ run.factors[2 * k].m = BatchWx(th)
        /\ Cardinality({p \in DOMAIN run.factors : run.factors[p].gate = "Z"})
              = poly_deg + 1
        /\ Cardinality({p \in DOMAIN run.factors : run.factors[p].gate = "X"})
              = poly_deg
        /\ \A i \in DOMAIN th :
              run.u[i] = LeftToRight(run.factors, i, Len(run.factors))

C3_Witness ==
    /\ run.kind = "pair"
    /\ poly_deg = 2
    /\ Len(th) = 2
    /\ th[1] # th[2]
    /\ phis[1] # phis[2]

C5_DegreeZero ==
    (Returned /\ poly_deg = 0) =>
        /\ run.matmuls = 0
        /\ \A p \in DOMAIN run.factors : run.factors[p].gate # "X"
        /\ \A i \in DOMAIN th :
              /\ run.u[i] = Rz(phis[1])
              /\ convention = 0 =>
                    (run.re[i] = Cos(phis[1]) /\ run.im[i] = Sin(phis[1]))
              /\ convention = 1 =>
                    (run.re[i] = Cos(phis[1]) /\ run.im[i] = 0)

C5_Witness ==
    /\ run.kind = "pair"
    /\ poly_deg = 0
    /\ convention = 0
    /\ Len(th) = 2
    /\ th[1] # th[2]
    /\ phis[1] = 1
    /\ run.im = <<1, 1>>

C7_CallIsPure ==
    [][run'.kind # "idle" =>
            /\ UNCHANGED layerVars
            /\ (run.kind # "idle" /\ th' = th) => run' = run]_vars

\* a call on a trained layer
C7_Witness ==
    /\ run.kind = "pair"
    /\ Len(phis) = 2
    /\ phis[1] = 2
    /\ phis[2] = 3
    /\ Len(th) = 2

-----------------------------------------------------------------------------
(* Properties of the losses and of construct_qsp_model *)

\* C9: self-deviation is zero: mean_deviation(a, a) = 0 and
\* max_deviation(a, a) = 0 for every batch a
C9_SelfDeviationZero ==
    (lossEval.fn \in {"mean_deviation", "max_deviation"}
        /\ lossEval.y_true = lossEval.y_pred)
    => lossEval.value = <<0, 1>>

C9_Witness ==
    /\ lossEval.fn = "max_deviation"
    /\ lossEval.y_true = lossEval.y_pred
    /\ Len(lossEval.y_true) = 2
    /\ lossEval.y_true[1] = <<3, 4>>
    /\ lossEval.y_true[2] = <<0, 4>>

\* the arguments of the latest construct_qsp_model call are all valid
ValidArgs ==
    /\ model.args.poly_deg >= 0
    /\ model.args.convention \in {0, 1}
    /\ model.args.mean_or_max \in {0, 1}
    /\ model.args.squared \in {0, 1}

\* the loss the flags stand for
LossOfFlags(mean_or_max, squared) ==
    CASE mean_or_max = 0 /\ squared = 0 -> "mean_deviation"
      [] mean_or_max = 0 /\ squared = 1 -> "mean_deviation_squared"
      [] mean_or_max = 1 /\ squared = 0 -> "max_deviation"
      [] mean_or_max = 1 /\ squared = 1 -> "max_deviation_squared"

BadFlags ==
    \/ model.args.mean_or_max \notin {0, 1}
    \/ model.args.squared \notin {0, 1}

\* C10 as stated: with a flag outside {0, 1} the call ends in an error at the
\* compile step (the unbound local loss) and returns no model
C10_UnboundLossFailsAtCompile ==
    (model.status # "none" /\ BadFlags) =>
        /\ model.status = "error"
        /\ model.loss = "none"
        /\ model.error = "UnboundLocalError"

\* C10 as amended: with a flag outside {0, 1} the call never returns a model
\* and binds no loss; it ends in an error, which is the unbound local loss
\* at the compile step exactly when the statements before it complete
\* (poly_deg >= 0 and convention 0 or 1), and an earlier error otherwise
C10_UnboundLossNeverReturns ==
    (model.status # "none" /\ BadFlags) =>
        /\ model.status = "error"
        /\ model.loss = "none"
        /\ model.error # "none"
        /\ model.error = "UnboundLocalError"
              <=> (model.args.poly_deg >= 0 /\ model.args.convention \in {0, 1})

C10_Witness ==
    /\ model.status = "error"
    /\ model.error = "UnboundLocalError"
    /\ model.args.mean_or_max = 0
    /\ model.args.squared = 2
    /\ model.args.poly_deg = 1

====
